---------------------------- MODULE Spec2Model ----------------------------
(***************************************************************************)
(* PitchPlease (src/pitchplease.js): polyphonic pitch detection.           *)
(*                                                                         *)
(* The detector returned by createPolyphon is modelled as a state machine: *)
(* start / stop / togglePause, the animation-frame callback and the frame  *)
(* pass `loop` (spectrum -> peaks -> fundamentals -> pitch classes ->      *)
(* stability -> chord -> onUpdate).  The pure parts (matchChord, the peak  *)
(* scan, the harmonic sieve) are operators, used by the frame pass and     *)
(* also applied on their own to enumerated inputs.                         *)
(*                                                                         *)
(* Numbers.  TLC has integers only, so every real of the source is kept    *)
(* as an exact rational <<numerator, denominator>> and every comparison    *)
(* of the source is decided by cross-multiplication:                       *)
(*   - a MIDI value 12*log2(hz/C0_HZ) is kept as the frequency hz it is    *)
(*     the logarithm of; log2 is increasing, so a comparison of MIDI       *)
(*     values is the matching comparison of frequencies or of frequency    *)
(*     ratios;                                                             *)
(*   - s*sqrt(h) is compared through s*s*h;                                *)
(*   - matchChord's score is a double in the source, and the rounding of   *)
(*     matches/len - extra*0.1 decides some comparisons; see FloatScore.   *)
(***************************************************************************)
EXTENDS Integers, Sequences, FiniteSets, TLC

-----------------------------------------------------------------------------
(* Bounds of the model *)

\* longest pitch-class list handed to matchChord on its own
MaxLen == 3

\* the peak scan on its own: every spectrum of up to ShortBins bins, and
\* periodic spectra of LongBins - 2 .. LongBins bins, of period up to
\* MaxPeriod, over the magnitudes 0..MaxLevel
ShortBins == 5
LongBins == 132
MaxPeriod == 2
MaxLevel == 2

\* the harmonic sieve on its own: a base peak and any of its harmonics
\* 2..MaxHarmonic
MaxHarmonic == 4
\* the frames a run processes, the calls of start() it makes, and the loop
\* callbacks that may be queued at once
MaxFrames == 4
MaxStarts == 1
MaxQueued == 1

-----------------------------------------------------------------------------
(* MUSIC MATH *)

NOTE_NAMES == <<"C", "C#", "D", "D#", "E", "F", "F#", "G", "G#", "A", "A#", "B">>

PitchClasses == 0..11

-----------------------------------------------------------------------------
(* CHORD MATCHING *)

\* [name, abbrev, template] triples, in catalog order
CHORDS ==
  << [name |-> "Major",   abbrev |-> "",        template |-> <<4, 7>>],
     [name |-> "Minor",   abbrev |-> "m",       template |-> <<3, 7>>],
     [name |-> "Dim",     abbrev |-> "dim",     template |-> <<3, 6>>],
     [name |-> "Aug",     abbrev |-> "aug",     template |-> <<4, 8>>],
     [name |-> "Sus4",    abbrev |-> "sus4",    template |-> <<5, 7>>],
     [name |-> "Sus2",    abbrev |-> "sus2",    template |-> <<2, 7>>],
     [name |-> "5",       abbrev |-> "5",       template |-> <<7>>],
     [name |-> "Maj7",    abbrev |-> "maj7",    template |-> <<4, 7, 11>>],
     [name |-> "7",       abbrev |-> "7",       template |-> <<4, 7, 10>>],
     [name |-> "m7",      abbrev |-> "m7",      template |-> <<3, 7, 10>>],
     [name |-> "m(maj7)", abbrev |-> "m(maj7)", template |-> <<3, 7, 11>>],
     [name |-> "dim7",    abbrev |-> "dim7",    template |-> <<3, 6, 9>>],
     [name |-> "o7",      abbrev |-> "o7",      template |-> <<3, 6, 10>>],  \* the source spells it with a slashed o
     [name |-> "aug7",    abbrev |-> "aug7",    template |-> <<4, 8, 10>>],
     [name |-> "6",       abbrev |-> "6",       template |-> <<4, 7, 9>>],
     [name |-> "m6",      abbrev |-> "m6",      template |-> <<3, 7, 9>>],
     [name |-> "add9",    abbrev |-> "add9",    template |-> <<2, 4, 7>>],
     [name |-> "madd9",   abbrev |-> "madd9",   template |-> <<2, 3, 7>>],
     [name |-> "9",       abbrev |-> "9",       template |-> <<4, 7, 10, 2>>],
     [name |-> "m9",      abbrev |-> "m9",      template |-> <<3, 7, 10, 2>>],
     [name |-> "maj9",    abbrev |-> "maj9",    template |-> <<4, 7, 11, 2>>],
     [name |-> "11",      abbrev |-> "11",      template |-> <<4, 7, 10, 2, 5>>],
     [name |-> "13",      abbrev |-> "13",      template |-> <<4, 7, 10, 2, 9>>] >>

\* JavaScript values that are not arrays / not chords
Null == [kind |-> "null"]
Undefined == [kind |-> "undefined"]
Array(items) == [kind |-> "array", items |-> items]

Range(s) == {s[i] : i \in 1..Len(s)}

\* [...new Set(xs)].sort((a, b) => a - b): the distinct values, ascending
RECURSIVE SortedSeq(_)
SortedSeq(S) ==
  IF S = {} THEN <<>>
  ELSE LET lo == CHOOSE x \in S : \A y \in S : x <= y
       IN <<lo>> \o SortedSeq(S \ {lo})

\* ((p - root) % 12 + 12) % 12 with JavaScript's truncating %
JsMod(a, n) == IF a >= 0 THEN a % n ELSE -((-a) % n)
\* (mutant) the remainder left negative: (p - root) % 12
Interval_Negative(p, root) == JsMod(p - root, 12)
Interval(p, root) == JsMod(JsMod(p - root, 12) + 12, 12)

\* pcs.filter((_, j) => j !== i).map(...).filter(x => x > 0): the intervals
\* of the other entries above root pcs[i] (only their membership and their
\* number are read afterwards, so the trailing sort is not modelled apart)
Intervals(pcs, i) ==
  LET other == SelectSeq([j \in 1..Len(pcs) |-> <<j, pcs[j]>>], LAMBDA e : e[1] # i)
      mapped == [k \in 1..Len(other) |-> Interval(other[k][2], pcs[i])]
  IN SelectSeq(mapped, LAMBDA x : x > 0)

\* template.filter(t => intervals.includes(t)).length
Matches(template, intervals) ==
  Cardinality({k \in 1..Len(template) :
                 \E i \in 1..Len(intervals) : intervals[i] = template[k]})

(***************************************************************************)
(* score = matches / template.length - (intervals.length - matches) * 0.1  *)
(* is a double.  Its exact value is ExactScore60/60.  Evaluated in IEEE    *)
(* binary64 (round to nearest even), every triple (len, matches, extra)    *)
(* with len in 1..5 and matches + extra <= 11 whose exact value exceeds    *)
(* 1/2 yields the double nearest that value, except len = 5, matches = 4,  *)
(* extra in {1, 2}: 0.8 - 0.1 = 0.7000000000000001 and                     *)
(* 0.8 - 0.2 = 0.6000000000000001, one ulp above the 0.7 and 0.6 that      *)
(* 1 - 0.30000000000000004 and 1 - 0.4 give.  The only double with exact   *)
(* value 1/2 is 0.5.  bestScore never drops below 0.5, so a rounding of a  *)
(* score of exact value below 1/2 decides no comparison.  FloatScore       *)
(* orders the doubles: twice the exact value in sixtieths, plus one for    *)
(* the two sums that round up.                                             *)
(***************************************************************************)
ExactScore60(len, matches, extra) == (60 \div len) * matches - 6 * extra

RoundsUp(len, matches, extra) == len = 5 /\ matches = 4 /\ extra \in {1, 2}

FloatScore(len, matches, extra) ==
  2 * ExactScore60(len, matches, extra) + (IF RoundsUp(len, matches, extra) THEN 1 ELSE 0)

\* bestScore = 0.5
InitialBestScore == 2 * 30

\* the score of matches hits of a template of len entries among count
\* intervals
ScoreOf(len, matches, count) == FloatScore(len, matches, count - matches)

Score(template, intervals) ==
  ScoreOf(Len(template), Matches(template, intervals), Len(intervals))

Chord(root, c) ==
  [root |-> NOTE_NAMES[root + 1], rootPc |-> root, name |-> CHORDS[c].name,
   abbrev |-> CHORDS[c].abbrev, full |-> NOTE_NAMES[root + 1] \o CHORDS[c].abbrev]

\* (mutant) a tie replaces the best so far: score >= bestScore
Better_OrEqual(score, bestScore) == score >= bestScore

\* if (score > bestScore) { bestScore = score; best = {...} }
Better(score, bestScore) == score > bestScore

\* for (const [name, abbrev, template] of CHORDS), from template c on, for one
\* root; acc = <<best, bestScore>>
RECURSIVE TemplateLoop(_, _, _, _)
TemplateLoop(root, intervals, c, acc) ==
  IF c > Len(CHORDS) THEN acc
  ELSE LET score == Score(CHORDS[c].template, intervals)
       IN IF Better(score, acc[2])
          THEN TemplateLoop(root, intervals, c + 1, <<Chord(root, c), score>>)
          ELSE TemplateLoop(root, intervals, c + 1, acc)

\* for (let i = 0; i < pcs.length; i++), from root index i on
RECURSIVE RootLoop(_, _, _)
RootLoop(pcs, i, acc) ==
  IF i > Len(pcs) THEN acc
  ELSE RootLoop(pcs, i + 1, TemplateLoop(pcs[i], Intervals(pcs, i), 1, acc))

\* (mutant) the distinct values in order of first occurrence, not sorted
RECURSIVE Canonical_Unsorted(_)
Canonical_Unsorted(items) ==
  IF items = <<>> THEN <<>>
  ELSE LET front == Canonical_Unsorted(SubSeq(items, 1, Len(items) - 1))
           last == items[Len(items)]
       IN IF last \in Range(front) THEN front ELSE Append(front, last)

\* const pcs = [...new Set(pitchClasses)].sort(...)
Canonical(items) == SortedSeq(Range(items))

\* (mutant) no length guards, and the best so far starts below every score
matchChord_Unguarded(pitchClasses) ==
  IF pitchClasses.kind # "array" THEN Null
  ELSE RootLoop(Canonical(pitchClasses.items), 1, <<Null, -1000>>)[1]

matchChord(pitchClasses) ==
  IF pitchClasses.kind # "array" \/ Len(pitchClasses.items) < 2 THEN Null
  ELSE LET pcs == Canonical(pitchClasses.items)
       IN IF Len(pcs) < 2 THEN Null
          ELSE RootLoop(pcs, 1, <<Null, InitialBestScore>>)[1]

-----------------------------------------------------------------------------
(* Exact rationals <<numerator, denominator>>, denominator > 0 *)

Abs(x) == IF x < 0 THEN -x ELSE x
RECURSIVE Gcd(_, _)
Gcd(a, b) == IF b = 0 THEN a ELSE Gcd(b, a % b)
\* n/d in lowest terms
Rat(n, d) ==
  LET g == Gcd(Abs(n), Abs(d))
  IN IF d < 0 THEN <<(-n) \div g, (-d) \div g>> ELSE <<n \div g, d \div g>>
RLess(a, b) == a[1] * b[2] < b[1] * a[2]
RMin(a, b) == IF RLess(b, a) THEN b ELSE a
RMax(a, b) == IF RLess(a, b) THEN b ELSE a
RPlusInt(i, q) == Rat(i * q[2] + q[1], q[2])
MinOf(S) == CHOOSE x \in S : \A y \in S : x <= y

-----------------------------------------------------------------------------
(* The frame pass: find peaks *)

\* const config = { ..., maxPeaks: 64, maxFundamentals: 8, numHarmonics: 6 }
maxPeaks == 64
maxFundamentals == 8
numHarmonics == 6

\* spectrum[i] of the source (index from 0) is spectrum[i + 1] here
At(spectrum, i) == spectrum[i + 1]

\* cur > threshold && cur > prev && cur > next
\* (mutant) a plateau counts: cur >= next
IsPeak_Plateau(spectrum, threshold, i) ==
  /\ RLess(threshold, <<At(spectrum, i), 1>>)
  /\ At(spectrum, i) > At(spectrum, i - 1)
  /\ At(spectrum, i) >= At(spectrum, i + 1)
IsPeak(spectrum, threshold, i) ==
  /\ RLess(threshold, <<At(spectrum, i), 1>>)
  /\ At(spectrum, i) > At(spectrum, i - 1)
  /\ At(spectrum, i) > At(spectrum, i + 1)

\* d = 2 * (prev - 2*cur + next);
\* off = Math.abs(d) > 0.0001 ? Math.max(-0.5, Math.min(0.5, (prev-next)/d)) : 0
Offset(prev, cur, next) ==
  LET d == 2 * (prev - 2 * cur + next)
  IN IF Abs(d) * 10000 > 1
     THEN RMax(<<-1, 2>>, RMin(<<1, 2>>, Rat(prev - next, d)))
     ELSE <<0, 1>>

\* peakBins[peakCount] = i + off; peakEnergies[peakCount] = cur
Peak(spectrum, i) ==
  [bin |-> RPlusInt(i, Offset(At(spectrum, i - 1), At(spectrum, i), At(spectrum, i + 1))),
   energy |-> At(spectrum, i)]

\* the loop condition: i < config.binCount - 1 && peakCount < config.maxPeaks
\* (mutant) the cap tested one too late: peakCount <= maxPeaks
ScanContinues_CapLate(i, peakCount, binCount) == i < binCount - 1 /\ peakCount <= maxPeaks
ScanContinues(i, peakCount, binCount) == i < binCount - 1 /\ peakCount < maxPeaks

\* for (let i = 1; ...; i++) from bin i on; peaks = the valid prefix of
\* peakBins / peakEnergies, peakCount = Len(peaks)
RECURSIVE PeakScan(_, _, _, _, _)
PeakScan(spectrum, threshold, binCount, i, peaks) ==
  IF ~ScanContinues(i, Len(peaks), binCount) THEN peaks
  ELSE PeakScan(spectrum, threshold, binCount, i + 1,
                IF IsPeak(spectrum, threshold, i)
                THEN Append(peaks, Peak(spectrum, i)) ELSE peaks)

FindPeaks(spectrum, threshold, binCount) == PeakScan(spectrum, threshold, binCount, 1, <<>>)

-----------------------------------------------------------------------------
(* The frame pass: find fundamentals (harmonic sieve) *)

(***************************************************************************)
(* peakMidis[i] = binToMidi(peakBins[i], hzPerBin) = 12*log2(bin*hzPerBin  *)
(* / C0_HZ).  The model keeps the bin position and decides the source's    *)
(* comparisons of MIDI values on frequencies:                              *)
(*   m < 24 || m > 96       <=>  hz < C0_HZ*2^2 or hz > C0_HZ*2^8          *)
(*   |mj - (m + 12*log2(n))| < 0.5                                         *)
(*                          <=>  2^(-1/24) < binj / (n * bin) < 2^(1/24)   *)
(*   Math.round(m) = k      <=>  C0_HZ*2^((k - 0.5)/12) <= hz              *)
(*                               < C0_HZ*2^((k + 0.5)/12)                  *)
(* with C0_HZ = 8.1757989156.  The irrational edges are taken to the       *)
(* milli-hertz, and 2^(1/24) = 1.0293022366... as 6358/6177 (off by        *)
(* 1.4e-8).  The Float32Array roundings of the source are not modelled:    *)
(* both only move a comparison for a value within about 1e-6 of an edge.   *)
(***************************************************************************)
Midi24MilliHz == 32703      \* C0_HZ * 2^(24/12) * 1000
Midi96MilliHz == 2093005    \* C0_HZ * 2^(96/12) * 1000
HalfSemitone == <<6358, 6177>>

\* !(m < 24 || m > 96) for the peak at bin position pos
InRange(pos, hzPerBin) ==
  LET n == pos[1] * hzPerBin[1] * 1000
      d == pos[2] * hzPerBin[2]
  IN n >= Midi24MilliHz * d /\ n <= Midi96MilliHz * d

\* Math.abs(peakMidis[j] - exp) < 0.5, exp = m + 12 * Math.log2(n), for the
\* peaks at bin positions posJ and pos
NearHarmonic(posJ, pos, n) ==
  LET a == posJ[1] * pos[2]
      b == n * pos[1] * posJ[2]
  IN /\ a * HalfSemitone[2] < b * HalfSemitone[1]
     /\ b * HalfSemitone[2] < a * HalfSemitone[1]

\* the inner for (j ...) of the scoring pass: the first other peak within
\* half a semitone of harmonic n of peak i, 0 when there is none
FirstSupport(peaks, i, n) ==
  LET J == {j \in 1..Len(peaks) : j # i /\ NearHarmonic(peaks[j].bin, peaks[i].bin, n)}
  IN IF J = {} THEN 0 ELSE MinOf(J)

(***************************************************************************)
(* scores[i] = s * Math.sqrt(h), s = peakEnergies[i] + the sum over the    *)
(* supported harmonics n of peakEnergies[j]/n, h = 1 + their number.       *)
(* Kept as <<60*s, h>> (60 = lcm(2..6), so 60*s is an integer); ScoreSq    *)
(* is 3600 times the square of the score, and scores are non-negative, so  *)
(* a comparison of scores is the comparison of their ScoreSq.              *)
(***************************************************************************)
PeakScore(peaks, hzPerBin, i) ==
  IF ~InRange(peaks[i].bin, hzPerBin) THEN <<0, 1>>
  ELSE LET hit == [n \in 2..numHarmonics |-> FirstSupport(peaks, i, n)]
           on == {n \in 2..numHarmonics : hit[n] # 0}
           part(n) == IF hit[n] = 0 THEN 0 ELSE (60 \div n) * peaks[hit[n]].energy
       IN <<60 * peaks[i].energy + part(2) + part(3) + part(4) + part(5) + part(6),
            1 + Cardinality(on)>>

ScoreSq(score) == score[1] * score[1] * score[2]

MaxOf(S) == CHOOSE x \in S : \A y \in S : x >= y

\* scores[i] > 0.3 after scores[i] /= maxS (done only if maxS > 0; otherwise
\* every score is 0)
AboveFloor(scores, i) ==
  LET maxSq == MaxOf({ScoreSq(scores[k]) : k \in 1..Len(scores)})
  IN maxSq > 0 /\ 100 * ScoreSq(scores[i]) > 9 * maxSq

\* let bi = -1, bs = 0.3; for (i ...) if (!used[i] && scores[i] > bs) {...}:
\* the first unused peak of greatest score among those above 0.3, 0 if none
Pick(scores, used) ==
  LET cand == {i \in 1..Len(scores) : i \notin used /\ AboveFloor(scores, i)}
  IN IF cand = {} THEN 0
     ELSE MinOf({i \in cand : \A k \in cand : ScoreSq(scores[i]) >= ScoreSq(scores[k])})

\* used[bi] = 1, and used[j] = 1 for every peak j within half a semitone of
\* a harmonic 2..numHarmonics of the picked peak
\* (mutant) only the picked peak is marked
Consumed_SelfOnly(peaks, bi) == {bi}
Consumed(peaks, bi) ==
  {bi} \cup {j \in 1..Len(peaks) :
               \E n \in 2..numHarmonics : NearHarmonic(peaks[j].bin, peaks[bi].bin, n)}

\* while (fundCount < config.maxFundamentals) {...}; funds = the valid
\* prefix of fundMidis (each kept as its bin position)
RECURSIVE SelectLoop(_, _, _, _)
SelectLoop(peaks, scores, used, funds) ==
  IF ~(Len(funds) < maxFundamentals) THEN funds
  ELSE LET bi == Pick(scores, used)
       IN IF bi = 0 THEN funds
          ELSE SelectLoop(peaks, scores, used \cup Consumed(peaks, bi),
                          Append(funds, peaks[bi].bin))

\* fundCount = 0; if (peakCount > 0) {...}
FindFundamentals(peaks, hzPerBin) ==
  IF Len(peaks) > 0
  THEN SelectLoop(peaks, [i \in 1..Len(peaks) |-> PeakScore(peaks, hzPerBin, i)], {}, <<>>)
  ELSE <<>>

-----------------------------------------------------------------------------
(* The frame pass: spectrum, noise floor, pitch classes, stability *)

(***************************************************************************)
(* The detector is created with opts.fftSize = 512 and opts.binCount = 10  *)
(* on an audio context of 48 kHz: hzPerBin = 93.75, so the interior bins   *)
(* 1..8 span F#2..F#5.                                                     *)
(***************************************************************************)
sampleRate == 48000
fftSize == 512
binCount == 10
hzPerBin == Rat(sampleRate, fftSize)

\* for (i < config.binCount) spectrum[i] = raw[i]
Spectrum(raw) == SubSeq(raw, 1, binCount)

\* let maxE = 0; ... if (raw[i] > maxE) maxE = raw[i]
MaxEnergy(spectrum) == MaxOf({0} \cup Range(spectrum))

\* the bins for (i = 0; i < binCount; i += 10) with spectrum[i] < maxE * 0.3
\* (no magnitude of the model is a multiple of 10, where the double
\* maxE * 0.3 could differ from the exact product)
QuietBins(spectrum) ==
  {i \in 0..(binCount - 1) :
     i % 10 = 0 /\ 10 * At(spectrum, i) < 3 * MaxEnergy(spectrum)}

RECURSIVE SumAt(_, _)
SumAt(spectrum, bins) ==
  IF bins = {} THEN 0
  ELSE LET i == MinOf(bins) IN At(spectrum, i) + SumAt(spectrum, bins \ {i})

\* cnt ? sum / cnt : 0
NoiseEstimate(spectrum) ==
  LET bins == QuietBins(spectrum)
  IN IF bins = {} THEN <<0, 1>> ELSE Rat(SumAt(spectrum, bins), Cardinality(bins))

(***************************************************************************)
(* noiseFloor = noiseFloor * 0.95 + estimate * 0.05, kept exact.  The      *)
(* source's doubles differ from it by rounding of the order of 1e-16,      *)
(* which decides cur > threshold differently only when 3 * noiseFloor is   *)
(* an integer; with integer estimates the exact noise floor, a sum of      *)
(* e * 19^a / 20^(a+1), is an integer only when it is 0.                   *)
(***************************************************************************)
NoiseFloor(floor, estimate) ==
  Rat(19 * floor[1] * estimate[2] + estimate[1] * floor[2], 20 * floor[2] * estimate[2])

\* Math.min(255, noiseFloor * 3)
Threshold(floor) == RMin(<<255, 1>>, Rat(3 * floor[1], floor[2]))

(***************************************************************************)
(* Math.round(midi) for a fundamental at a bin position: the k with        *)
(* C0_HZ * 2^((k - 0.5)/12) <= hz < C0_HZ * 2^((k + 0.5)/12).  The lower   *)
(* edges of k = 24..35 in milli-hertz; an octave up doubles them.  A       *)
(* fundamental has a positive score, so its MIDI value is in [24, 96].     *)
(***************************************************************************)
RoundingEdges ==
  <<31772, 33661, 35663, 37784, 40030, 42411, 44933, 47605, 50435, 53434, 56612, 59978>>

RECURSIVE Pow2(_)
Pow2(n) == IF n = 0 THEN 1 ELSE 2 * Pow2(n - 1)

LowerEdge == [k \in 24..97 |-> RoundingEdges[((k - 24) % 12) + 1] * Pow2((k - 24) \div 12)]

RoundedMidi(pos) ==
  LET n == pos[1] * hzPerBin[1] * 1000
      d == pos[2] * hzPerBin[2]
  IN CHOOSE k \in 24..96 : LowerEdge[k] * d <= n /\ n < LowerEdge[k + 1] * d

\* Math.round(midi) % 12
midiToPitchClass(pos) == RoundedMidi(pos) % 12

\* for (i < fundCount) pcs.push(midiToPitchClass(fundMidis[i]));
\* uniquePcs = [...new Set(pcs)].sort((a, b) => a - b)
UniquePcs(funds) == SortedSeq({midiToPitchClass(funds[i]) : i \in 1..Len(funds)})

\* uniquePcs.join(',')
RECURSIVE Join(_)
Join(pcs) ==
  IF Len(pcs) = 0 THEN ""
  ELSE IF Len(pcs) = 1 THEN ToString(pcs[1])
  ELSE ToString(pcs[1]) \o "," \o Join(Tail(pcs))

\* history.unshift(key); if (history.length > stabilityFrames) history.pop()
\* (mutant) the history is never trimmed
Remember_Untrimmed(hist, key, n) == <<key>> \o hist
Remember(hist, key, n) ==
  LET h == <<key>> \o hist
  IN IF Len(h) > n THEN SubSeq(h, 1, Len(h) - 1) ELSE h

\* history.length >= stabilityFrames && history.every(h => h === history[0])
\* (mutant) the length of the history is not tested
IsStable_AnyLength(hist, n) == \A i \in 1..Len(hist) : hist[i] = hist[1]
IsStable(hist, n) == Len(hist) >= n /\ \A i \in 1..Len(hist) : hist[i] = hist[1]

\* if (stable && uniquePcs.length >= 2) chord = matchChord(uniquePcs)
FrameChord(isStable, uniquePcs) ==
  IF isStable /\ Len(uniquePcs) >= 2 THEN matchChord(Array(uniquePcs)) ELSE Null

\* chord && chord.full !== lastChord?.full
\* (mutant) level-triggered: every matched chord is passed on
ChordChanged_Level(chord, last) == chord # Null
ChordChanged(chord, last) == chord # Null /\ (last = Null \/ chord.full # last.full)

-----------------------------------------------------------------------------
(* State *)

VARIABLES
  arg,              \* the argument of a function applied on its own
  ret,              \* its result
  called,           \* whether it has been applied
  stabilityFrames,  \* config.stabilityFrames
  running,          \* let running
  paused,           \* let paused
  acquiring,        \* start() calls waiting for getUserMedia
  resuming,         \* start() calls waiting for audioCtx.resume()
  started,          \* start() calls made so far
  rafPending,       \* loop callbacks queued by requestAnimationFrame
  noiseFloor,       \* let noiseFloor
  history,          \* const history
  stable,           \* let stable
  lastChord,        \* let lastChord
  onUpdateCalls,    \* the data passed to onUpdate, one entry per frame
  onChordCalls,     \* the chords passed to onChord, each with its frame
  onErrorCalls,     \* the errors passed to onError
  rejected,         \* the failures getUserMedia has rejected with
  stopped           \* stop() has been called, and start() not since

applied == <<arg, ret, called>>
detector ==
  <<stabilityFrames, running, paused, acquiring, resuming, started, rafPending,
    noiseFloor, history, stable, lastChord, onUpdateCalls, onChordCalls, onErrorCalls, rejected, stopped>>
vars == <<applied, detector>>

\* the detector returned by createPolyphon with config.stabilityFrames = n
Fresh(n) ==
  /\ stabilityFrames = n
  /\ running = FALSE
  /\ paused = FALSE
  /\ acquiring = 0
  /\ resuming = 0
  /\ started = 0
  /\ rafPending = 0
  /\ noiseFloor = <<0, 1>>
  /\ history = <<>>
  /\ stable = FALSE
  /\ lastChord = Null
  /\ onUpdateCalls = <<>>
  /\ onChordCalls = <<>>
  /\ onErrorCalls = <<>>
  /\ rejected = <<>>
  /\ stopped = FALSE

-----------------------------------------------------------------------------
(* matchChord applied on its own *)

\* every list of at most n pitch classes
Lists(n) == UNION {[1..k -> PitchClasses] : k \in 0..n}

\* the inputs of matchChord: null, undefined, every list of up to MaxLen
\* pitch classes (any order, any repetition), and every set of pitch
\* classes ascending, descending, rotated (its inversions) and with every
\* entry repeated
Reverse(s) == [i \in 1..Len(s) |-> s[Len(s) + 1 - i]]
Rotations(s) == {SubSeq(s, k, Len(s)) \o SubSeq(s, 1, k - 1) : k \in 1..Len(s)}
Arrangements(S) ==
  LET a == SortedSeq(S) IN {a, Reverse(a), a \o Reverse(a)} \cup Rotations(a)
MatchInputs ==
  {Null, Undefined}
    \cup {Array(l) : l \in Lists(MaxLen)}
    \cup {Array(l) : l \in UNION {Arrangements(S) : S \in SUBSET PitchClasses}}

InitMatch ==
  /\ arg \in MatchInputs
  /\ ret = Null
  /\ called = FALSE
  /\ Fresh(4)

CallMatchChord ==
  /\ ~called
  /\ ret' = matchChord(arg)
  /\ called' = TRUE
  /\ UNCHANGED <<arg, detector>>

NextMatch == CallMatchChord

MatchSpec == InitMatch /\ [][NextMatch]_vars

-----------------------------------------------------------------------------
(* The peak scan applied on its own *)

Levels == 0..MaxLevel

\* thresholds min(255, noiseFloor * 3) to scan under
Thresholds == {<<0, 1>>, <<1, 2>>, <<3, 2>>}

Periodic(pattern, n) == [k \in 1..n |-> pattern[((k - 1) % Len(pattern)) + 1]]

PeakSpectra ==
  UNION {[1..n -> Levels] : n \in 3..ShortBins}
    \cup {Periodic(pattern, n) :
            pattern \in UNION {[1..q -> Levels] : q \in 2..MaxPeriod},
            n \in (LongBins - 2)..LongBins}

InitPeaks ==
  /\ arg \in {[spectrum |-> sp, threshold |-> t, binCount |-> Len(sp)] :
                sp \in PeakSpectra, t \in Thresholds}
  /\ ret = <<>>
  /\ called = FALSE
  /\ Fresh(4)

CallFindPeaks ==
  /\ ~called
  /\ ret' = FindPeaks(arg.spectrum, arg.threshold, arg.binCount)
  /\ called' = TRUE
  /\ UNCHANGED <<arg, detector>>

NextPeaks == CallFindPeaks

PeakSpec == InitPeaks /\ [][NextPeaks]_vars

-----------------------------------------------------------------------------
(* The harmonic sieve applied on its own *)

\* audioCtx.sampleRate / config.fftSize: 48000/512 and 48000/16384
HzChoices == {<<375, 4>>, <<375, 128>>}

\* bins of the base peak
BaseBins == {1, 2, 3, 5, 11, 12, 22, 45, 178, 357, 714}

\* energies of the peaks
SieveLevels == {1, 2, 8}

\* the peaks at the harmonics n of bin base whose energy[n] is not 0
Stack(base, energy) ==
  LET present == SortedSeq({n \in 1..MaxHarmonic : energy[n] # 0})
  IN [k \in 1..Len(present) |->
        [bin |-> <<present[k] * base, 1>>, energy |-> energy[present[k]]]]

InitSieve ==
  /\ arg \in {[base |-> b, energy |-> e, hzPerBin |-> hz, peaks |-> Stack(b, e)] :
                b \in BaseBins, e \in [1..MaxHarmonic -> {0} \cup SieveLevels],
                hz \in HzChoices}
  /\ ret = <<>>
  /\ called = FALSE
  /\ Fresh(4)

CallFindFundamentals ==
  /\ ~called
  /\ ret' = FindFundamentals(arg.peaks, arg.hzPerBin)
  /\ called' = TRUE
  /\ UNCHANGED <<arg, detector>>

NextSieve == CallFindFundamentals

SieveSpec == InitSieve /\ [][NextSieve]_vars

-----------------------------------------------------------------------------
(* The detector: start, stop, togglePause and the frame loop *)

Number(v) == [kind |-> "number", value |-> v]

\* opts.stabilityFrames || 4
OrDefault(opt, default) ==
  IF opt.kind = "number" /\ opt.value # 0 THEN opt.value ELSE default

\* the values of opts.stabilityFrames the detector is created with
StabilityOptions == {Undefined, Number(0), Number(1), Number(2)}

\* the first entries of a frame's byte frequency data, bin 0 first; the
\* remaining entries up to frequencyBinCount are 0, but for entry binCount
Silence == <<0, 0, 0, 0, 0, 0, 0, 0, 0, 0>>
Triad == <<3, 0, 0, 12, 0, 12, 0, 0, 12, 0, 12>>   \* C#4, A#4 and F#5, hum in bin 0
Pair == <<0, 0, 0, 8, 0, 0, 0, 8, 0, 0>>           \* C#4 and E5
Faint == <<0, 0, 1, 0, 0, 2, 1, 0, 0, 0>>          \* a weak F#3, and a B4 between bins

Raw(head) == [i \in 1..(fftSize \div 2) |-> IF i <= Len(head) THEN head[i] ELSE 0]

\* analyser.getByteFrequencyData(raw): what the analyser may deliver
AnalyserData == {Raw(head) : head \in {Silence, Triad, Pair, Faint}}

Init ==
  /\ arg = Null
  /\ ret = Null
  /\ called = FALSE
  /\ \E opt \in StabilityOptions : Fresh(OrDefault(opt, 4))

\* the body of loop() after its guard, on the data raw, with queued
\* callbacks waiting when it returns; each const of the source is bound once
Pass(raw, queued) ==
  /\ Len(onUpdateCalls) < MaxFrames
  /\ queued < MaxQueued
  /\ \E spectrum \in {Spectrum(raw)} :
     \E floor \in {NoiseFloor(noiseFloor, NoiseEstimate(spectrum))} :
     \E threshold \in {Threshold(floor)} :
     \E peaks \in {FindPeaks(spectrum, threshold, binCount)} :
     \E funds \in {FindFundamentals(peaks, hzPerBin)} :
     \E uniquePcs \in {UniquePcs(funds)} :
     \E hist \in {Remember(history, Join(uniquePcs), stabilityFrames)} :
     \E isStable \in {IsStable(hist, stabilityFrames)} :
     \E chord \in {FrameChord(isStable, uniquePcs)} :
     \E changed \in {ChordChanged(chord, lastChord)} :
     \E last \in {IF changed THEN chord ELSE lastChord} :
       /\ noiseFloor' = floor
       /\ history' = hist
       /\ stable' = isStable
       /\ lastChord' = last
       /\ onChordCalls' =
            IF changed
            THEN Append(onChordCalls, [frame |-> Len(onUpdateCalls) + 1, chord |-> chord])
            ELSE onChordCalls
       /\ onUpdateCalls' =
            Append(onUpdateCalls,
                   [peakCount |-> Len(peaks), fundCount |-> Len(funds),
                    pitchClasses |-> uniquePcs, stable |-> isStable, chord |-> last,
                    maxEnergy |-> MaxEnergy(spectrum), threshold |-> threshold])
       /\ rafPending' = queued + 1

\* loop(), called when running and paused have the values isRunning and
\* isPaused and queued callbacks are waiting
loop(isRunning, isPaused, queued) ==
  IF ~isRunning \/ isPaused
  THEN /\ rafPending' = queued
       /\ UNCHANGED <<noiseFloor, history, stable, lastChord, onUpdateCalls, onChordCalls>>
  ELSE \E raw \in AnalyserData : Pass(raw, queued)

\* start() up to its first await
Start ==
  /\ started < MaxStarts
  /\ started' = started + 1
  /\ acquiring' = acquiring + 1
  /\ stopped' = FALSE
  /\ UNCHANGED <<applied, stabilityFrames, running, paused, resuming, rafPending,
                 noiseFloor, history, stable, lastChord,
                 onUpdateCalls, onChordCalls, onErrorCalls, rejected>>

\* the rest of the try block of start(): running = true; loop()
FinishStart ==
  /\ running' = TRUE
  /\ loop(TRUE, paused, rafPending)
  /\ UNCHANGED <<applied, stabilityFrames, paused, started, onErrorCalls, rejected, stopped>>

\* getUserMedia resolves and the new audio context is not suspended
Granted ==
  /\ acquiring > 0
  /\ acquiring' = acquiring - 1
  /\ FinishStart
  /\ UNCHANGED resuming

\* getUserMedia resolves and the new audio context is suspended:
\* await audioCtx.resume()
GrantedSuspended ==
  /\ acquiring > 0
  /\ acquiring' = acquiring - 1
  /\ resuming' = resuming + 1
  /\ UNCHANGED <<applied, stabilityFrames, running, paused, started, rafPending,
                 noiseFloor, history, stable, lastChord,
                 onUpdateCalls, onChordCalls, onErrorCalls, rejected, stopped>>

\* audioCtx.resume() resolves
Resumed ==
  /\ resuming > 0
  /\ resuming' = resuming - 1
  /\ FinishStart
  /\ UNCHANGED acquiring

\* the failures getUserMedia and audioCtx.resume() reject with
AcquireErrors == {"NotAllowedError", "NotFoundError"}
ResumeError == "InvalidStateError"

\* getUserMedia rejects with e: catch (e) { onError(e) }
\* (mutant) the catch block reports the failure and tries again
Denied_Retry ==
  /\ acquiring > 0
  /\ \E e \in AcquireErrors :
       /\ rejected' = Append(rejected, e)
       /\ onErrorCalls' = Append(onErrorCalls, e)
  /\ UNCHANGED <<applied, stabilityFrames, running, paused, acquiring, resuming, started,
                 rafPending, noiseFloor, history, stable, lastChord,
                 onUpdateCalls, onChordCalls, stopped>>
Denied ==
  /\ acquiring > 0
  /\ acquiring' = acquiring - 1
  /\ \E e \in AcquireErrors :
       /\ rejected' = Append(rejected, e)
       /\ onErrorCalls' = Append(onErrorCalls, e)
  /\ UNCHANGED <<applied, stabilityFrames, running, paused, resuming, started, rafPending,
                 noiseFloor, history, stable, lastChord, onUpdateCalls, onChordCalls,
                 stopped>>

\* audioCtx.resume() rejects: catch (e) { onError(e) }
ResumeRejected ==
  /\ resuming > 0
  /\ resuming' = resuming - 1
  /\ onErrorCalls' = Append(onErrorCalls, ResumeError)
  /\ UNCHANGED <<applied, stabilityFrames, running, paused, acquiring, started, rafPending,
                 noiseFloor, history, stable, lastChord, onUpdateCalls, onChordCalls,
                 rejected, stopped>>

\* stop()
Stop ==
  /\ running' = FALSE
  /\ stopped' = TRUE
  /\ UNCHANGED <<applied, stabilityFrames, paused, acquiring, resuming, started, rafPending,
                 noiseFloor, history, stable, lastChord,
                 onUpdateCalls, onChordCalls, onErrorCalls, rejected>>

\* togglePause()
TogglePause ==
  /\ paused' = ~paused
  /\ loop(running, ~paused, rafPending)
  /\ UNCHANGED <<applied, stabilityFrames, running, acquiring, resuming, started,
                 onErrorCalls, rejected, stopped>>

\* a callback queued by requestAnimationFrame(loop) runs
AnimationFrame ==
  /\ rafPending > 0
  /\ loop(running, paused, rafPending - 1)
  /\ UNCHANGED <<applied, stabilityFrames, running, paused, acquiring, resuming, started,
                 onErrorCalls, rejected, stopped>>

Next ==
  \/ Start
  \/ Granted
  \/ GrantedSuspended
  \/ Resumed
  \/ Denied
  \/ ResumeRejected
  \/ Stop
  \/ TogglePause
  \/ AnimationFrame

Spec == Init /\ [][Next]_vars

-----------------------------------------------------------------------------
(* Claims about matchChord (checked under MatchSpec) *)

IsArray == arg.kind = "array"
ArgSet == Range(arg.items)
NoteName(r) == NOTE_NAMES[r + 1]
Transposed(r, template) == {r} \cup {(r + template[k]) % 12 : k \in 1..Len(template)}

\* C5: the exact major, minor, diminished, major-seventh or dominant-seventh
\* chord on any root r, its notes in any order, is matched with rootPc = r,
\* root = the note name of r and that template's abbreviation.
C5Templates == {1, 2, 3, 8, 9}
C5_ExactChordsRecognised ==
  (called /\ IsArray) =>
    \A r \in PitchClasses : \A c \in C5Templates :
      ArgSet = Transposed(r, CHORDS[c].template) =>
        /\ ret # Null
        /\ ret.rootPc = r
        /\ ret.root = NoteName(r)
        /\ ret.abbrev = CHORDS[c].abbrev

C5_Witness ==
  /\ called
  /\ arg = Array(<<7, 11, 2, 5>>)
  /\ ret # Null
  /\ ret.full = "G7"

\* exact value, in sixtieths, of the score of root pcs[i] against template c
PairScore60(pcs, i, c) ==
  LET intervals == Intervals(pcs, i)
      matches == Matches(CHORDS[c].template, intervals)
  IN ExactScore60(Len(CHORDS[c].template), matches, Len(intervals) - matches)

\* the (root index, template) pair the claim names: greatest exact score,
\* then smallest root, then earliest template; <<0, 0>> when no pair scores
\* strictly above 0.5
ClaimedPair(pcs) ==
  LET pairs == (1..Len(pcs)) \X (1..Len(CHORDS))
      good == {p \in pairs : PairScore60(pcs, p[1], p[2]) > 30}
  IN IF good = {} THEN <<0, 0>>
     ELSE LET ties == {p \in good : \A q \in good :
                         PairScore60(pcs, p[1], p[2]) >= PairScore60(pcs, q[1], q[2])}
          IN CHOOSE p \in ties : \A q \in ties :
               p[1] < q[1] \/ (p[1] = q[1] /\ p[2] <= q[2])

\* C6: for every set of at least 2 pitch classes matchChord returns none iff
\* no (root, template) pair scores strictly above 0.5, and otherwise the pair
\* of greatest score, ties going to the smallest root and then to the
\* earliest template of the catalog.
C6_BestPairFirstOnTies ==
  (called /\ IsArray /\ Cardinality(ArgSet) >= 2) =>
    LET pcs == SortedSeq(ArgSet)
        p == ClaimedPair(pcs)
    IN IF p = <<0, 0>> THEN ret = Null ELSE ret = Chord(pcs[p[1]], p[2])

C8_FewerThanTwoIsNone ==
  (called /\ (~IsArray \/ Cardinality(ArgSet) < 2)) => ret = Null

C8_Witness ==
  /\ called
  /\ arg = Array(<<5, 5, 5>>)
  /\ ret = Null

\* C9: the result depends only on the set of distinct pitch classes of the
\* input: any list gives what the ascending list of its distinct values gives.
C9_DependsOnlyOnSet ==
  (called /\ IsArray) => ret = matchChord(Array(SortedSeq(ArgSet)))

C9_Witness ==
  /\ called
  /\ arg = Array(<<9, 6, 3, 0>>)
  /\ ret # Null
  /\ ret.full = "Cdim7"

-----------------------------------------------------------------------------
(* Claims about the harmonic sieve (checked under SieveSpec) *)

\* the frame's peaks are one peak in the MIDI range [24, 96] and peaks at
\* exactly its 2nd, 3rd and 4th harmonics
FundamentalWithThreeHarmonics ==
  /\ InRange(<<arg.base, 1>>, arg.hzPerBin)
  /\ {n \in 1..MaxHarmonic : arg.energy[n] # 0} = 1..4

\* C4 as stated: whatever the four energies, the sieve outputs exactly one
\* fundamental, the base peak.
C4_OneFundamentalAnyEnergies ==
  (called /\ FundamentalWithThreeHarmonics) => ret = <<(<<arg.base, 1>>)>>

\* C4 amended: the same, provided none of the three harmonic peaks has more
\* energy than the base peak.
C4_OneFundamentalWhenBaseLoudest ==
  (called /\ FundamentalWithThreeHarmonics
     /\ \A n \in 2..4 : arg.energy[n] <= arg.energy[1])
    => ret = <<(<<arg.base, 1>>)>>

C4_Witness ==
  /\ called
  /\ FundamentalWithThreeHarmonics
  /\ arg.energy[1] = 8 /\ arg.energy[2] = 8 /\ arg.energy[3] = 2 /\ arg.energy[4] = 1
  /\ InRange(<<4 * arg.base, 1>>, arg.hzPerBin)
  /\ ret = <<(<<arg.base, 1>>)>>

-----------------------------------------------------------------------------
(* Claims about the peak scan (checked under PeakSpec) *)

\* the interior bins that are strict local maxima above the threshold
Candidates ==
  {i \in 1..(arg.binCount - 2) :
     /\ RLess(arg.threshold, <<arg.spectrum[i + 1], 1>>)
     /\ arg.spectrum[i + 1] > arg.spectrum[i]
     /\ arg.spectrum[i + 1] > arg.spectrum[i + 2]}

\* the n-th candidate in ascending bin order
NthCandidate(n) == CHOOSE c \in Candidates : Cardinality({x \in Candidates : x < c}) = n - 1

Smaller(a, b) == IF a < b THEN a ELSE b

\* C10: the peaks of a frame are the first min(maxPeaks, k) of the k
\* candidates, in ascending bin order (each within half a bin of its
\* candidate, with that bin's magnitude), so never more than maxPeaks.
C10_FirstMaxPeaksCandidates ==
  called =>
    /\ Len(ret) = Smaller(maxPeaks, Cardinality(Candidates))
    /\ \A n \in 1..Len(ret) :
         LET c == NthCandidate(n)
         IN /\ ret[n].energy = arg.spectrum[c + 1]
            /\ 2 * Abs(ret[n].bin[1] - c * ret[n].bin[2]) < ret[n].bin[2]

C10_Witness ==
  /\ called
  /\ Cardinality(Candidates) > maxPeaks
  /\ Len(ret) = maxPeaks
  /\ ret[maxPeaks].bin = <<2 * maxPeaks - 1, 1>>

-----------------------------------------------------------------------------
(* Claims about the frame loop (checked under Spec) *)

\* the frames processed so far, and the pitch-class set of frame k
Frames == 1..Len(onUpdateCalls)
FrameSet(k) == Range(onUpdateCalls[k].pitchClasses)

(***************************************************************************)
(* C1: with stabilityFrames = N, the stable flag of a frame is true if and *)
(* only if at least N frames have been processed and the pitch-class sets  *)
(* of the last N frames, this one included, are all the same set.          *)
(***************************************************************************)
C1_StableIffLastFramesIdentical ==
  \A k \in Frames :
    onUpdateCalls[k].stable <=>
      /\ k >= stabilityFrames
      /\ \A j \in (k - stabilityFrames + 1)..k : FrameSet(j) = FrameSet(k)

\* N = 2: the second identical set is stable, the differing third frame is
\* not, and the fourth, identical to the third, is stable again
C1_Witness ==
  /\ stabilityFrames = 2
  /\ Len(onUpdateCalls) = 4
  /\ FrameSet(1) = FrameSet(2) /\ FrameSet(2) # FrameSet(3) /\ FrameSet(3) = FrameSet(4)
  /\ ~onUpdateCalls[1].stable /\ onUpdateCalls[2].stable
  /\ ~onUpdateCalls[3].stable /\ onUpdateCalls[4].stable

\* whether onChord was called during frame k, and the chord last passed to
\* onChord before frame k (Null if none was)
Fired(k) == \E i \in 1..Len(onChordCalls) : onChordCalls[i].frame = k
PassedBefore(k) ==
  LET before == {i \in 1..Len(onChordCalls) : onChordCalls[i].frame < k}
  IN IF before = {} THEN Null ELSE onChordCalls[MaxOf(before)].chord
FrameMatch(k) == matchChord(Array(onUpdateCalls[k].pitchClasses))
Eligible(k) == onUpdateCalls[k].stable /\ Len(onUpdateCalls[k].pitchClasses) >= 2

(***************************************************************************)
(* C2: onChord is called during a frame if and only if the frame is        *)
(* stable, has at least 2 distinct pitch classes, matchChord returns a     *)
(* chord for them and its full differs from the full of the chord last     *)
(* passed to onChord (or none was passed before); the chord passed is      *)
(* that match.  So no two consecutive calls carry the same full and no     *)
(* call falls on an unstable frame.  The equivalence is stated of the      *)
(* latest frame; every frame is the latest one in the state it leaves.     *)
(***************************************************************************)
C2_OnChordIffNewStableChord ==
  /\ \A k \in Frames :
       k = Len(onUpdateCalls) =>
         /\ Fired(k) <=>
              /\ Eligible(k)
              /\ \E match \in {FrameMatch(k)} :
                   /\ match # Null
                   /\ \E before \in {PassedBefore(k)} :
                        before = Null \/ match.full # before.full
         /\ Fired(k) => onChordCalls[Len(onChordCalls)] = [frame |-> k, chord |-> FrameMatch(k)]
  /\ \A i \in 1..(Len(onChordCalls) - 1) :
       /\ onChordCalls[i].chord.full # onChordCalls[i + 1].chord.full
       /\ onChordCalls[i].frame < onChordCalls[i + 1].frame
  /\ \A i \in 1..Len(onChordCalls) : onUpdateCalls[onChordCalls[i].frame].stable

\* N = 1: F# on frame 1, the same triad again on frame 2 (no call), B5 on
\* frame 3, and the same again on frame 4 (no call)
C2_Witness ==
  /\ Len(onUpdateCalls) = 4
  /\ Len(onChordCalls) = 2
  /\ onChordCalls[1] = [frame |-> 1, chord |-> Chord(6, 1)]
  /\ onChordCalls[2].frame = 3
  /\ onChordCalls[2].chord.full = "B5"
  /\ \A k \in Frames : Eligible(k) /\ FrameMatch(k) # Null

(***************************************************************************)
(* C3: the chord field of the data passed to onUpdate is the match of that *)
(* frame's pitch-class set when the frame is stable and a match exists,    *)
(* and none otherwise.                                                     *)
(***************************************************************************)
C3_ChordFieldIsThisFramesMatch ==
  \A k \in Frames :
    k = Len(onUpdateCalls) =>
      onUpdateCalls[k].chord =
        IF Eligible(k) /\ FrameMatch(k) # Null THEN FrameMatch(k) ELSE Null

-----------------------------------------------------------------------------
(* Claims about start and stop (checked under Spec) *)

(***************************************************************************)
(* C11: when getUserMedia rejects during a start() call, onError is called *)
(* once for that call, with the failure; the detector does not become      *)
(* running, no onUpdate or onChord call is made and no frame is queued by  *)
(* that call, and the acquisition is not tried again (the call is over:    *)
(* one call fewer is waiting and no new call is made).  So a detector all  *)
(* of whose start() calls have failed is not running, has made no          *)
(* onUpdate or onChord call, and has reported each failure once, in order. *)
(***************************************************************************)
C11_FailedStartReportsOnce ==
  /\ [][\A e \in AcquireErrors :
          rejected' = Append(rejected, e) =>
            /\ onErrorCalls' = Append(onErrorCalls, e)
            /\ running' = running
            /\ onUpdateCalls' = onUpdateCalls
            /\ onChordCalls' = onChordCalls
            /\ rafPending' = rafPending
            /\ acquiring' = acquiring - 1
            /\ resuming' = resuming
            /\ started' = started]_vars
  /\ [](started > 0 /\ Len(rejected) = started =>
          /\ ~running
          /\ onUpdateCalls = <<>>
          /\ onChordCalls = <<>>
          /\ rafPending = 0
          /\ acquiring = 0
          /\ onErrorCalls = rejected)

\* a start() call has failed: its failure is the one error reported, and
\* no call is waiting any more
C11_Witness ==
  /\ started > 0
  /\ Len(rejected) = started
  /\ onErrorCalls = rejected
  /\ rejected[1] = "NotFoundError"
  /\ acquiring = 0
  /\ ~running

(***************************************************************************)
(* C12: once stop() has been called, and until start() is called again,    *)
(* no step runs a pipeline pass: none adds an onUpdate or an onChord call. *)
(***************************************************************************)
C12_NoPassAfterStop ==
  [][stopped /\ stopped' =>
       /\ onUpdateCalls' = onUpdateCalls
       /\ onChordCalls' = onChordCalls]_vars

=============================================================================
